---- MODULE Spec2Model ----
(***************************************************************************)
(* Mode orchestration of the Fast Pair locator tag sample                  *)
(* (samples/bluetooth/fast_pair/locator_tag/src/main.c).                   *)
(*                                                                         *)
(* Every C function of main.c that touches the mode state is an operator   *)
(* from a state record to a state record, so that the order of the         *)
(* statements inside a handler is kept.  Every callback registered by      *)
(* main.c is one action that runs the whole handler.  Time is counted in   *)
(* seconds; it advances in steps of TickLen seconds.                       *)
(***************************************************************************)
EXTENDS Integers, Sequences, FiniteSets, TLC

VARIABLES
    fmdn_provisioned,           \* main.c:78
    fmdn_recovery_mode,         \* main.c:79
    fmdn_id_mode,               \* main.c:80
    dfu_mode,                   \* main.c:81
    fp_account_key_present,     \* main.c:82
    factory_reset_executed,     \* main.c:84
    factory_reset_trigger,      \* main.c:85
    is_first_state_changed_cb,  \* main.c:442 (function static)
    dfu_mode_timeout_work,      \* main.c:94, delayable work: [armed, remaining]
    factory_reset_work,         \* timer owned by the factory reset module
    fp_adv_mode,                \* advertising module: last mode that was set
    smp_enabled,                \* advertising module: SMP characteristic exposed
    rpa_rotation_suspended,     \* advertising module: RPA rotation suspended
    has_account_key,            \* Fast Pair library: an Account Key is stored
    state_changed_cb_called,    \* fmdn_provisioning_state_changed was called since boot
    init_work,                  \* main.c:90, work item of init_work_handle: its position
    init_stage,                 \* number of initialization stages that returned 0
    init_work_sem,              \* main.c:89, count of the semaphore (limit 1)
    main_pc,                    \* position of main()
    init_sem_timeout,           \* seconds left of the k_sem_take timeout of main()
    app_running,                \* UI module: APP_UI_STATE_APP_RUNNING was indicated
    ev,                         \* the handler that ran in the last step, with its inputs
    cmds,                       \* the commands that handler sent, in order
    ret                         \* the value that handler returned

vars == <<fmdn_provisioned, fmdn_recovery_mode, fmdn_id_mode, dfu_mode,
          fp_account_key_present, factory_reset_executed, factory_reset_trigger,
          is_first_state_changed_cb, dfu_mode_timeout_work, factory_reset_work,
          fp_adv_mode, smp_enabled, rpa_rotation_suspended, has_account_key,
          state_changed_cb_called,
          init_work, init_stage, init_work_sem, main_pc, init_sem_timeout, app_running,
          ev, cmds, ret>>

bootvars == <<init_work, init_stage, init_work_sem, main_pc, init_sem_timeout, app_running>>

----------------------------------------------------------------------------
(* Program constants *)

\* Semaphore timeout in seconds.
INIT_SEM_TIMEOUT == 60

\* Factory reset delay in seconds since the trigger operation.
FACTORY_RESET_DELAY == 3

\* FMDN provisioning timeout in minutes.
FMDN_PROVISIONING_TIMEOUT == 5

\* DFU mode timeout in minutes.
DFU_MODE_TIMEOUT == 1

K_SECONDS(s) == s

K_MINUTES(m) == m * 60

\* enum factory_reset_trigger
FACTORY_RESET_TRIGGER_NONE == "FACTORY_RESET_TRIGGER_NONE"

FACTORY_RESET_TRIGGER_KEY_STATE_MISMATCH == "FACTORY_RESET_TRIGGER_KEY_STATE_MISMATCH"

FACTORY_RESET_TRIGGER_PROVISIONING_TIMEOUT == "FACTORY_RESET_TRIGGER_PROVISIONING_TIMEOUT"

FactoryResetTriggers ==
    {FACTORY_RESET_TRIGGER_NONE, FACTORY_RESET_TRIGGER_KEY_STATE_MISMATCH,
     FACTORY_RESET_TRIGGER_PROVISIONING_TIMEOUT}

\* enum app_fp_adv_mode
APP_FP_ADV_MODE_OFF == "APP_FP_ADV_MODE_OFF"

APP_FP_ADV_MODE_DISCOVERABLE == "APP_FP_ADV_MODE_DISCOVERABLE"

APP_FP_ADV_MODE_NOT_DISCOVERABLE == "APP_FP_ADV_MODE_NOT_DISCOVERABLE"

AdvModes ==
    {APP_FP_ADV_MODE_OFF, APP_FP_ADV_MODE_DISCOVERABLE, APP_FP_ADV_MODE_NOT_DISCOVERABLE}

\* enum app_ui_state values used by main.c
APP_UI_STATE_PROVISIONED == "APP_UI_STATE_PROVISIONED"

APP_UI_STATE_RECOVERY_MODE == "APP_UI_STATE_RECOVERY_MODE"

APP_UI_STATE_ID_MODE == "APP_UI_STATE_ID_MODE"

APP_UI_STATE_DFU_MODE == "APP_UI_STATE_DFU_MODE"

\* enum app_ui_request values; the last one stands for every request that
\* fmdn_mode_request_handle does not dispatch.
APP_UI_REQUEST_RECOVERY_MODE_ENTER == "APP_UI_REQUEST_RECOVERY_MODE_ENTER"

APP_UI_REQUEST_ID_MODE_ENTER == "APP_UI_REQUEST_ID_MODE_ENTER"

APP_UI_REQUEST_DFU_MODE_ENTER == "APP_UI_REQUEST_DFU_MODE_ENTER"

APP_UI_REQUEST_RINGING_STOP == "APP_UI_REQUEST_RINGING_STOP"

UiRequests ==
    {APP_UI_REQUEST_RECOVERY_MODE_ENTER, APP_UI_REQUEST_ID_MODE_ENTER,
     APP_UI_REQUEST_DFU_MODE_ENTER, APP_UI_REQUEST_RINGING_STOP}

\* enum bt_fast_pair_fmdn_read_mode
BT_FAST_PAIR_FMDN_READ_MODE_FMDN_RECOVERY == "BT_FAST_PAIR_FMDN_READ_MODE_FMDN_RECOVERY"

BT_FAST_PAIR_FMDN_READ_MODE_DULT_ID == "BT_FAST_PAIR_FMDN_READ_MODE_DULT_ID"

ReadModes ==
    {BT_FAST_PAIR_FMDN_READ_MODE_FMDN_RECOVERY, BT_FAST_PAIR_FMDN_READ_MODE_DULT_ID}

\* Results of bt_fast_pair_fmdn_read_mode_enter: 0 or a negative errno.
ReadModeEnterErrs == {0, -13}

\* Characteristic UUIDs seen by the GATT authorization callback.
BT_UUID_SMP_CHAR == "BT_UUID_SMP_CHAR"

BT_UUID_GAP_DEVICE_NAME == "BT_UUID_GAP_DEVICE_NAME"

BT_UUID_GAP_APPEARANCE == "BT_UUID_GAP_APPEARANCE"

AttrUuids == {BT_UUID_SMP_CHAR, BT_UUID_GAP_DEVICE_NAME, BT_UUID_GAP_APPEARANCE}

\* MCUmgr callback inputs.
MGMT_EVT_OP_CMD_RECV == "MGMT_EVT_OP_CMD_RECV"

MGMT_EVT_OP_CMD_STATUS == "MGMT_EVT_OP_CMD_STATUS"

MgmtEvents == {MGMT_EVT_OP_CMD_RECV, MGMT_EVT_OP_CMD_STATUS}

MGMT_GROUP_ID_OS == "MGMT_GROUP_ID_OS"

MGMT_GROUP_ID_IMAGE == "MGMT_GROUP_ID_IMAGE"

MGMT_GROUP_ID_STAT == "MGMT_GROUP_ID_STAT"

OS_MGMT_ID_ECHO == "OS_MGMT_ID_ECHO"

OS_MGMT_ID_RESET == "OS_MGMT_ID_RESET"

IMG_MGMT_ID_UPLOAD == "IMG_MGMT_ID_UPLOAD"

STAT_MGMT_ID_LIST == "STAT_MGMT_ID_LIST"

\* The commands a peer sends: <<group, id>>, the id being one of the group.
MgmtCmds ==
    {<<MGMT_GROUP_ID_OS, OS_MGMT_ID_ECHO>>, <<MGMT_GROUP_ID_OS, OS_MGMT_ID_RESET>>,
     <<MGMT_GROUP_ID_IMAGE, IMG_MGMT_ID_UPLOAD>>, <<MGMT_GROUP_ID_STAT, STAT_MGMT_ID_LIST>>}

\* sizeof(struct mgmt_evt_op_cmd_arg): uint16_t group, uint8_t id, padding, int.
SizeofCmdRecv == 2 + 1 + 1 + 4

DataSizes == {SizeofCmdRecv - 1, SizeofCmdRecv}

MGMT_CB_OK == "MGMT_CB_OK"

MGMT_CB_ERROR_RC == "MGMT_CB_ERROR_RC"

\* The calls of init_work_handle that can fail, in the order of the code;
\* the calls made by fast_pair_prepare and fmdn_prepare are listed in place.
InitStages ==
    <<"app_ui_init", "bt_conn_auth_cb_register", "bt_gatt_authorization_cb_register",
      "bt_enable", "settings_load", "app_id_create", "app_battery_init", "app_ring_init",
      "app_fp_adv_id_set", "app_fp_adv_init",
      "bt_fast_pair_fmdn_id_set", "bt_fast_pair_fmdn_adv_param_set",
      "bt_fast_pair_fmdn_info_cb_register", "bt_fast_pair_fmdn_read_mode_cb_register",
      "bt_fast_pair_info_cb_register",
      "app_factory_reset_init", "bt_fast_pair_enable">>

\* Results of an initialization call: 0 or a negative errno.
InitErrs == {0, -5}

----------------------------------------------------------------------------
(* Bounds of the model *)

\* Seconds that pass in one Tick step.
TickLen == 60

----------------------------------------------------------------------------
(* The state record the C functions work on *)

BoolStr(b) == IF b THEN "true" ELSE "false"

Disarmed == [armed |-> FALSE, remaining |-> 0]

Armed(delay) == [armed |-> TRUE, remaining |-> delay]

State ==
    [fmdn_provisioned          |-> fmdn_provisioned,
     fmdn_recovery_mode        |-> fmdn_recovery_mode,
     fmdn_id_mode              |-> fmdn_id_mode,
     dfu_mode                  |-> dfu_mode,
     fp_account_key_present    |-> fp_account_key_present,
     factory_reset_executed    |-> factory_reset_executed,
     factory_reset_trigger     |-> factory_reset_trigger,
     is_first_state_changed_cb |-> is_first_state_changed_cb,
     dfu_mode_timeout_work     |-> dfu_mode_timeout_work,
     factory_reset_work        |-> factory_reset_work,
     fp_adv_mode               |-> fp_adv_mode,
     smp_enabled               |-> smp_enabled,
     rpa_rotation_suspended    |-> rpa_rotation_suspended,
     has_account_key           |-> has_account_key,
     state_changed_cb_called   |-> state_changed_cb_called,
     cmds                      |-> <<>>,
     ret                       |-> "void"]

\* Value of ev in the runs that do not record the handler and its result.
Unobserved == <<"unobserved">>

\* The handler named by e ran and left the state s.  ev, cmds and ret are
\* read by no function of main.c: they are recorded for the properties,
\* except in the runs that start with ev = Unobserved.
Commit(s, e) ==
    /\ fmdn_provisioned' = s.fmdn_provisioned
    /\ fmdn_recovery_mode' = s.fmdn_recovery_mode
    /\ fmdn_id_mode' = s.fmdn_id_mode
    /\ dfu_mode' = s.dfu_mode
    /\ fp_account_key_present' = s.fp_account_key_present
    /\ factory_reset_executed' = s.factory_reset_executed
    /\ factory_reset_trigger' = s.factory_reset_trigger
    /\ is_first_state_changed_cb' = s.is_first_state_changed_cb
    /\ dfu_mode_timeout_work' = s.dfu_mode_timeout_work
    /\ factory_reset_work' = s.factory_reset_work
    /\ fp_adv_mode' = s.fp_adv_mode
    /\ smp_enabled' = s.smp_enabled
    /\ rpa_rotation_suspended' = s.rpa_rotation_suspended
    /\ has_account_key' = s.has_account_key
    /\ state_changed_cb_called' = s.state_changed_cb_called
    /\ UNCHANGED bootvars
    /\ cmds' = IF ev = Unobserved THEN cmds ELSE s.cmds
    /\ ret' = IF ev = Unobserved THEN ret ELSE s.ret
    /\ ev' = IF ev = Unobserved THEN ev ELSE e

----------------------------------------------------------------------------
(* Collaborators of main.c: advertising module, UI module, factory reset   *)
(* module, Fast Pair library, kernel work queue.                           *)

\* LOG_INF and LOG_ERR; the module logs at LOG_LEVEL_INF, so LOG_DBG prints nothing.
LOG_INF(s, msg) == [s EXCEPT !.cmds = Append(@, <<"LOG_INF", msg>>)]

LOG_ERR(s, msg) == [s EXCEPT !.cmds = Append(@, <<"LOG_ERR", msg>>)]

app_ui_state_change_indicate(s, state, active) ==
    [s EXCEPT !.cmds = Append(@, <<"app_ui_state_change_indicate", state, BoolStr(active)>>)]

app_fp_adv_mode_set(s, mode) ==
    [s EXCEPT !.fp_adv_mode = mode,
              !.cmds = Append(@, <<"app_fp_adv_mode_set", mode>>)]

app_fp_adv_smp_enable(s, enable) ==
    [s EXCEPT !.smp_enabled = enable,
              !.cmds = Append(@, <<"app_fp_adv_smp_enable", BoolStr(enable)>>)]

app_fp_adv_rpa_rotation_suspend(s, suspended) ==
    [s EXCEPT !.rpa_rotation_suspended = suspended,
              !.cmds = Append(@, <<"app_fp_adv_rpa_rotation_suspend", BoolStr(suspended)>>)]

\* Arms the single factory reset timer for the full delay.
app_factory_reset_schedule(s, delay) ==
    [s EXCEPT !.factory_reset_work = Armed(delay)]

app_factory_reset_cancel(s) ==
    [s EXCEPT !.factory_reset_work = Disarmed]

bt_fast_pair_has_account_key(s) == s.has_account_key

\* k_work_reschedule(&dfu_mode_timeout_work, delay): the remaining time is
\* set to the full delay whether the work was scheduled or not.
k_work_reschedule(s, delay) ==
    [s EXCEPT !.dfu_mode_timeout_work = Armed(delay)]

----------------------------------------------------------------------------
(* The functions of main.c *)

\* Mutant: the executed reset leaves the stored trigger.
fmdn_factory_reset_executed_keeps_trigger(s) ==
    [s EXCEPT !.factory_reset_executed = TRUE]

fmdn_factory_reset_executed(s) ==
    [s EXCEPT !.factory_reset_trigger = FACTORY_RESET_TRIGGER_NONE,
              !.factory_reset_executed = TRUE]

\* Mutant: the trigger is stored but the reset is never scheduled.
fmdn_factory_reset_schedule_not_armed(s, trigger, delay) ==
    [s EXCEPT !.factory_reset_trigger = trigger]

fmdn_factory_reset_schedule(s, trigger, delay) ==
    [app_factory_reset_schedule(s, delay) EXCEPT !.factory_reset_trigger = trigger]

\* Mutant: the timer is cancelled but the stored trigger is kept.
fmdn_factory_reset_cancel_keeps_trigger(s) ==
    app_factory_reset_cancel(s)

\* Mutant: the trigger is cleared but the timer is left running.
fmdn_factory_reset_cancel_keeps_timer(s) ==
    [s EXCEPT !.factory_reset_trigger = FACTORY_RESET_TRIGGER_NONE]

fmdn_factory_reset_cancel(s) ==
    [app_factory_reset_cancel(s) EXCEPT !.factory_reset_trigger = FACTORY_RESET_TRIGGER_NONE]

\* bt_uuid_cmp returns 0 exactly for equal UUIDs.
bt_uuid_cmp(u1, u2) == IF u1 = u2 THEN 0 ELSE 1

\* Mutant: the identification mode is not consulted.
identifying_info_allow_no_id_mode(s) ==
    IF ~s.fmdn_provisioned THEN TRUE ELSE FALSE

identifying_info_allow(s) ==
    IF ~s.fmdn_provisioned THEN TRUE
    ELSE IF s.fmdn_id_mode THEN TRUE
    ELSE FALSE

uuid_block_list == <<BT_UUID_GAP_DEVICE_NAME>>

gatt_authorize(s, uuid) ==
    IF bt_uuid_cmp(uuid, BT_UUID_SMP_CHAR) = 0
    THEN (IF ~s.dfu_mode THEN FALSE ELSE TRUE)
    ELSE IF \E i \in 1..Len(uuid_block_list) : bt_uuid_cmp(uuid, uuid_block_list[i]) = 0
         THEN identifying_info_allow(s)
         ELSE TRUE

\* Mutant: the provisioning timeout is scheduled on every Account Key write.
fp_account_key_written_always_schedules(s) ==
    LET s0 == LOG_INF(s, "Fast Pair: Account Key write")
        s1 == app_fp_adv_mode_set(s0, APP_FP_ADV_MODE_NOT_DISCOVERABLE)
        s2 == app_fp_adv_rpa_rotation_suspend(
                  fmdn_factory_reset_schedule(
                      s1, FACTORY_RESET_TRIGGER_PROVISIONING_TIMEOUT,
                      K_MINUTES(FMDN_PROVISIONING_TIMEOUT)),
                  TRUE)
    IN  [s2 EXCEPT !.fp_account_key_present = bt_fast_pair_has_account_key(s2)]

fp_account_key_written(s) ==
    LET s0 == LOG_INF(s, "Fast Pair: Account Key write")
        s1 == app_fp_adv_mode_set(s0, APP_FP_ADV_MODE_NOT_DISCOVERABLE)
        s2 == IF ~s1.fp_account_key_present
              THEN app_fp_adv_rpa_rotation_suspend(
                       fmdn_factory_reset_schedule(
                           s1, FACTORY_RESET_TRIGGER_PROVISIONING_TIMEOUT,
                           K_MINUTES(FMDN_PROVISIONING_TIMEOUT)),
                       TRUE)
              ELSE s1
    IN  [s2 EXCEPT !.fp_account_key_present = bt_fast_pair_has_account_key(s2)]

\* Mutant: the exit of the recovery mode clears the identification mode too.
fmdn_recovery_mode_exited_clears_both(s) ==
    LET s0 == LOG_INF(s, "FMDN: recovery mode exited")
        s1 == [s0 EXCEPT !.fmdn_recovery_mode = FALSE, !.fmdn_id_mode = FALSE]
    IN  app_ui_state_change_indicate(s1, APP_UI_STATE_RECOVERY_MODE, s1.fmdn_recovery_mode)

fmdn_recovery_mode_exited(s) ==
    LET s0 == LOG_INF(s, "FMDN: recovery mode exited")
        s1 == [s0 EXCEPT !.fmdn_recovery_mode = FALSE]
    IN  app_ui_state_change_indicate(s1, APP_UI_STATE_RECOVERY_MODE, s1.fmdn_recovery_mode)

fmdn_id_mode_exited(s) ==
    LET s0 == LOG_INF(s, "FMDN: identification mode exited")
        s1 == [s0 EXCEPT !.fmdn_id_mode = FALSE]
    IN  app_ui_state_change_indicate(s1, APP_UI_STATE_ID_MODE, s1.fmdn_id_mode)

fmdn_read_mode_exited(s, mode) ==
    IF mode = BT_FAST_PAIR_FMDN_READ_MODE_FMDN_RECOVERY THEN fmdn_recovery_mode_exited(s)
    ELSE IF mode = BT_FAST_PAIR_FMDN_READ_MODE_DULT_ID THEN fmdn_id_mode_exited(s)
    ELSE s

\* err is the result of bt_fast_pair_fmdn_read_mode_enter: the library is
\* asked only when the device is provisioned.
bt_fast_pair_fmdn_read_mode_enter(s, mode) ==
    [s EXCEPT !.cmds = Append(@, <<"bt_fast_pair_fmdn_read_mode_enter", mode>>)]

\* Mutant: the flag is set before the result of the library is looked at.
fmdn_recovery_mode_action_handle_sets_before_check(s, err) ==
    IF ~s.fmdn_provisioned
    THEN LOG_INF(s, "FMDN: the recovery mode is not available in the unprovisioned state")
    ELSE LET s1 == IF s.fmdn_recovery_mode
                   THEN LOG_INF(s, "FMDN: refreshing the recovery mode timeout")
                   ELSE LOG_INF(s, "FMDN: entering the recovery mode")
             s2 == bt_fast_pair_fmdn_read_mode_enter(
                       s1, BT_FAST_PAIR_FMDN_READ_MODE_FMDN_RECOVERY)
             s3 == [s2 EXCEPT !.fmdn_recovery_mode = TRUE]
         IN  IF err # 0
             THEN LOG_ERR(s3, "FMDN: failed to enter the recovery mode")
             ELSE app_ui_state_change_indicate(s3, APP_UI_STATE_RECOVERY_MODE,
                                               s3.fmdn_recovery_mode)

fmdn_recovery_mode_action_handle(s, err) ==
    IF ~s.fmdn_provisioned
    THEN LOG_INF(s, "FMDN: the recovery mode is not available in the unprovisioned state")
    ELSE LET s1 == IF s.fmdn_recovery_mode
                   THEN LOG_INF(s, "FMDN: refreshing the recovery mode timeout")
                   ELSE LOG_INF(s, "FMDN: entering the recovery mode")
             s2 == bt_fast_pair_fmdn_read_mode_enter(
                       s1, BT_FAST_PAIR_FMDN_READ_MODE_FMDN_RECOVERY)
         IN  IF err # 0
             THEN LOG_ERR(s2, "FMDN: failed to enter the recovery mode")
             ELSE LET s3 == [s2 EXCEPT !.fmdn_recovery_mode = TRUE]
                  IN  app_ui_state_change_indicate(s3, APP_UI_STATE_RECOVERY_MODE,
                                                   s3.fmdn_recovery_mode)

\* Mutant: the accepted request indicates the mode but leaves the flag.
fmdn_id_mode_action_handle_flag_not_set(s, err) ==
    IF ~s.fmdn_provisioned
    THEN LOG_INF(s, "FMDN: the identification mode is not available in the unprovisioned state")
    ELSE LET s1 == IF s.fmdn_id_mode
                   THEN LOG_INF(s, "FMDN: refreshing the identification mode timeout")
                   ELSE LOG_INF(s, "FMDN: entering the identification mode")
             s2 == bt_fast_pair_fmdn_read_mode_enter(s1, BT_FAST_PAIR_FMDN_READ_MODE_DULT_ID)
         IN  IF err # 0
             THEN LOG_ERR(s2, "FMDN: failed to enter the identification mode")
             ELSE app_ui_state_change_indicate(s2, APP_UI_STATE_ID_MODE, TRUE)

fmdn_id_mode_action_handle(s, err) ==
    IF ~s.fmdn_provisioned
    THEN LOG_INF(s, "FMDN: the identification mode is not available in the unprovisioned state")
    ELSE LET s1 == IF s.fmdn_id_mode
                   THEN LOG_INF(s, "FMDN: refreshing the identification mode timeout")
                   ELSE LOG_INF(s, "FMDN: entering the identification mode")
             s2 == bt_fast_pair_fmdn_read_mode_enter(s1, BT_FAST_PAIR_FMDN_READ_MODE_DULT_ID)
         IN  IF err # 0
             THEN LOG_ERR(s2, "FMDN: failed to enter the identification mode")
             ELSE LET s3 == [s2 EXCEPT !.fmdn_id_mode = TRUE]
                  IN  app_ui_state_change_indicate(s3, APP_UI_STATE_ID_MODE, s3.fmdn_id_mode)

\* Mutant: the size of the payload is not checked.
smp_cmd_recv_no_size_check(s, event, data_size, group, id) ==
    IF event # MGMT_EVT_OP_CMD_RECV
    THEN [LOG_ERR(s, "Spurious event in recv cb") EXCEPT !.ret = MGMT_CB_ERROR_RC]
    ELSE IF ~(group = MGMT_GROUP_ID_IMAGE) /\
            ~((group = MGMT_GROUP_ID_OS) /\ (id = OS_MGMT_ID_RESET))
         THEN [s EXCEPT !.ret = MGMT_CB_OK]
    ELSE [k_work_reschedule(s, K_MINUTES(DFU_MODE_TIMEOUT)) EXCEPT !.ret = MGMT_CB_OK]

smp_cmd_recv(s, event, data_size, group, id) ==
    IF event # MGMT_EVT_OP_CMD_RECV
    THEN [LOG_ERR(s, "Spurious event in recv cb") EXCEPT !.ret = MGMT_CB_ERROR_RC]
    ELSE IF data_size # SizeofCmdRecv
    THEN [LOG_ERR(s, "Invalid data size in recv cb") EXCEPT !.ret = MGMT_CB_ERROR_RC]
    ELSE IF ~(group = MGMT_GROUP_ID_IMAGE) /\
            ~((group = MGMT_GROUP_ID_OS) /\ (id = OS_MGMT_ID_RESET))
         THEN [s EXCEPT !.ret = MGMT_CB_OK]
    ELSE [k_work_reschedule(s, K_MINUTES(DFU_MODE_TIMEOUT)) EXCEPT !.ret = MGMT_CB_OK]

\* Mutant: a request in DFU mode returns after the log line.
dfu_mode_action_handle_returns_if_active(s) ==
    IF s.dfu_mode
    THEN LOG_INF(s, "DFU: refreshing the DFU mode timeout")
    ELSE LET s0 == LOG_INF(s, "DFU: entering the DFU mode")
             s1 == k_work_reschedule(s0, K_MINUTES(DFU_MODE_TIMEOUT))
             s2 == [s1 EXCEPT !.dfu_mode = TRUE]
             s3 == app_fp_adv_smp_enable(s2, s2.dfu_mode)
             s4 == app_fp_adv_mode_set(s3, IF s3.fmdn_provisioned
                                           THEN APP_FP_ADV_MODE_NOT_DISCOVERABLE
                                           ELSE APP_FP_ADV_MODE_DISCOVERABLE)
         IN  app_ui_state_change_indicate(s4, APP_UI_STATE_DFU_MODE, s4.dfu_mode)

\* Mutant: the two advertising modes are swapped.
dfu_mode_action_handle_modes_swapped(s) ==
    LET s0 == IF s.dfu_mode
              THEN LOG_INF(s, "DFU: refreshing the DFU mode timeout")
              ELSE LOG_INF(s, "DFU: entering the DFU mode")
        s1 == k_work_reschedule(s0, K_MINUTES(DFU_MODE_TIMEOUT))
        s2 == [s1 EXCEPT !.dfu_mode = TRUE]
        s3 == app_fp_adv_smp_enable(s2, s2.dfu_mode)
        s4 == app_fp_adv_mode_set(s3, IF s3.fmdn_provisioned
                                      THEN APP_FP_ADV_MODE_DISCOVERABLE
                                      ELSE APP_FP_ADV_MODE_NOT_DISCOVERABLE)
    IN  app_ui_state_change_indicate(s4, APP_UI_STATE_DFU_MODE, s4.dfu_mode)

dfu_mode_action_handle(s) ==
    LET s0 == IF s.dfu_mode
              THEN LOG_INF(s, "DFU: refreshing the DFU mode timeout")
              ELSE LOG_INF(s, "DFU: entering the DFU mode")
        s1 == k_work_reschedule(s0, K_MINUTES(DFU_MODE_TIMEOUT))
        s2 == [s1 EXCEPT !.dfu_mode = TRUE]
        s3 == app_fp_adv_smp_enable(s2, s2.dfu_mode)
        s4 == app_fp_adv_mode_set(s3, IF s3.fmdn_provisioned
                                      THEN APP_FP_ADV_MODE_NOT_DISCOVERABLE
                                      ELSE APP_FP_ADV_MODE_DISCOVERABLE)
    IN  app_ui_state_change_indicate(s4, APP_UI_STATE_DFU_MODE, s4.dfu_mode)

\* Mutant: the expiry leaves dfu_mode set.
dfu_mode_timeout_work_handle_keeps_mode(s) ==
    LET s0 == LOG_INF([s EXCEPT !.dfu_mode_timeout_work = Disarmed], "DFU: timeout expired")
        s2 == app_fp_adv_smp_enable(s0, FALSE)
        s3 == app_fp_adv_mode_set(s2, APP_FP_ADV_MODE_OFF)
    IN  app_ui_state_change_indicate(s3, APP_UI_STATE_DFU_MODE, FALSE)

\* Runs when the delayable work expires, which also leaves it unscheduled.
dfu_mode_timeout_work_handle(s) ==
    LET s0 == LOG_INF([s EXCEPT !.dfu_mode_timeout_work = Disarmed], "DFU: timeout expired")
        s1 == [s0 EXCEPT !.dfu_mode = FALSE]
        s2 == app_fp_adv_smp_enable(s1, s1.dfu_mode)
        s3 == app_fp_adv_mode_set(s2, APP_FP_ADV_MODE_OFF)
    IN  app_ui_state_change_indicate(s3, APP_UI_STATE_DFU_MODE, s3.dfu_mode)

fmdn_mode_request_handle(s, request, err) ==
    IF request = APP_UI_REQUEST_RECOVERY_MODE_ENTER THEN fmdn_recovery_mode_action_handle(s, err)
    ELSE IF request = APP_UI_REQUEST_ID_MODE_ENTER THEN fmdn_id_mode_action_handle(s, err)
    ELSE IF request = APP_UI_REQUEST_DFU_MODE_ENTER THEN dfu_mode_action_handle(s)
    ELSE s

\* Mutant: the advertising is turned off in the unprovisioned state too.
fmdn_clock_synced_always_off(s) ==
    app_fp_adv_mode_set(LOG_INF(s, "FMDN: clock information synchronized"),
                        APP_FP_ADV_MODE_OFF)

fmdn_clock_synced(s) ==
    LET s1 == LOG_INF(s, "FMDN: clock information synchronized")
    IN  IF s1.fmdn_provisioned THEN app_fp_adv_mode_set(s1, APP_FP_ADV_MODE_OFF) ELSE s1

\* Mutant: the mismatch path clears is_first_state_changed_cb before it returns.
fmdn_provisioning_state_changed_mismatch_clears_first(s, provisioned) ==
    LET s0 == LOG_INF(s, IF provisioned THEN "FMDN: state changed to provisioned"
                                        ELSE "FMDN: state changed to unprovisioned")
        s1 == app_ui_state_change_indicate(s0, APP_UI_STATE_PROVISIONED, provisioned)
        s2 == [s1 EXCEPT !.fmdn_provisioned = provisioned]
        s3 == IF provisioned /\
                 (s2.factory_reset_trigger = FACTORY_RESET_TRIGGER_PROVISIONING_TIMEOUT)
              THEN app_fp_adv_rpa_rotation_suspend(fmdn_factory_reset_cancel(s2), FALSE)
              ELSE s2
        s4 == [s3 EXCEPT !.fp_account_key_present = bt_fast_pair_has_account_key(s3)]
    IN  IF s4.fp_account_key_present # provisioned
        THEN [fmdn_factory_reset_schedule(
                  app_fp_adv_mode_set(s4, APP_FP_ADV_MODE_OFF),
                  FACTORY_RESET_TRIGGER_KEY_STATE_MISMATCH,
                  K_SECONDS(FACTORY_RESET_DELAY))
                 EXCEPT !.is_first_state_changed_cb = FALSE]
        ELSE IF s4.factory_reset_executed
        THEN [LOG_INF(s4, "Please press a button to put the device in the Fast Pair discoverable advertising mode after a reset to factory settings")
                 EXCEPT !.factory_reset_executed = FALSE]
        ELSE LET mode == IF provisioned
                         THEN (IF s4.is_first_state_changed_cb
                               THEN APP_FP_ADV_MODE_NOT_DISCOVERABLE
                               ELSE APP_FP_ADV_MODE_OFF)
                         ELSE APP_FP_ADV_MODE_DISCOVERABLE
                 s5 == app_fp_adv_mode_set(s4, mode)
             IN  [s5 EXCEPT !.is_first_state_changed_cb = FALSE]

fmdn_provisioning_state_changed(s, provisioned) ==
    LET s0 == LOG_INF(s, IF provisioned THEN "FMDN: state changed to provisioned"
                                        ELSE "FMDN: state changed to unprovisioned")
        s1 == app_ui_state_change_indicate(s0, APP_UI_STATE_PROVISIONED, provisioned)
        s2 == [s1 EXCEPT !.fmdn_provisioned = provisioned]
        s3 == IF provisioned /\
                 (s2.factory_reset_trigger = FACTORY_RESET_TRIGGER_PROVISIONING_TIMEOUT)
              THEN app_fp_adv_rpa_rotation_suspend(fmdn_factory_reset_cancel(s2), FALSE)
              ELSE s2
        s4 == [s3 EXCEPT !.fp_account_key_present = bt_fast_pair_has_account_key(s3)]
    IN  IF s4.fp_account_key_present # provisioned
        THEN fmdn_factory_reset_schedule(
                 app_fp_adv_mode_set(s4, APP_FP_ADV_MODE_OFF),
                 FACTORY_RESET_TRIGGER_KEY_STATE_MISMATCH,
                 K_SECONDS(FACTORY_RESET_DELAY))
        ELSE IF s4.factory_reset_executed
        THEN [LOG_INF(s4, "Please press a button to put the device in the Fast Pair discoverable advertising mode after a reset to factory settings")
                 EXCEPT !.factory_reset_executed = FALSE]
        ELSE LET mode == IF provisioned
                         THEN (IF s4.is_first_state_changed_cb
                               THEN APP_FP_ADV_MODE_NOT_DISCOVERABLE
                               ELSE APP_FP_ADV_MODE_OFF)
                         ELSE APP_FP_ADV_MODE_DISCOVERABLE
                 s5 == app_fp_adv_mode_set(s4, mode)
             IN  [s5 EXCEPT !.is_first_state_changed_cb = FALSE]

----------------------------------------------------------------------------
(* Initial state: the statics of main.c after boot, before any callback *)

Init ==
    /\ fmdn_provisioned = FALSE
    /\ fmdn_recovery_mode = FALSE
    /\ fmdn_id_mode = FALSE
    /\ dfu_mode = FALSE
    /\ fp_account_key_present = FALSE
    /\ factory_reset_executed = FALSE
    /\ factory_reset_trigger = FACTORY_RESET_TRIGGER_NONE
    /\ is_first_state_changed_cb = TRUE
    /\ dfu_mode_timeout_work = Disarmed
    /\ factory_reset_work = Disarmed
    /\ fp_adv_mode = APP_FP_ADV_MODE_OFF
    /\ smp_enabled = FALSE
    /\ rpa_rotation_suspended = FALSE
    /\ has_account_key \in BOOLEAN     \* what settings_load found in storage
    /\ state_changed_cb_called = FALSE
    /\ init_work = "returned"
    /\ init_stage = Len(InitStages)
    /\ init_work_sem = 0
    /\ main_pc = "returned"
    /\ init_sem_timeout = K_SECONDS(INIT_SEM_TIMEOUT)
    /\ app_running = TRUE
    /\ ev = <<"boot">>
    /\ cmds = <<>>
    /\ ret = "void"

----------------------------------------------------------------------------
(* Actions: one per callback, work handler or passage of time *)

\* The Fast Pair library stored an Account Key and notifies the application.
AccountKeyWritten ==
    Commit(fp_account_key_written([State EXCEPT !.has_account_key = TRUE]),
           <<"fp_account_key_written">>)

\* The FMDN library reports the provisioning state.
ProvisioningStateChanged ==
    \E provisioned \in BOOLEAN :
        Commit([fmdn_provisioning_state_changed(State, provisioned)
                    EXCEPT !.state_changed_cb_called = TRUE],
               <<"fmdn_provisioning_state_changed", BoolStr(provisioned)>>)

ClockSynced ==
    Commit(fmdn_clock_synced(State), <<"fmdn_clock_synced">>)

ReadModeExited ==
    \E mode \in ReadModes :
        Commit(fmdn_read_mode_exited(State, mode), <<"fmdn_read_mode_exited", mode>>)

ModeRequest ==
    \E request \in UiRequests, err \in ReadModeEnterErrs :
        Commit(fmdn_mode_request_handle(State, request, err),
               <<"fmdn_mode_request_handle", request>>)

SmpCmdRecv ==
    \E event \in MgmtEvents, data_size \in DataSizes, cmd \in MgmtCmds :
        Commit(smp_cmd_recv(State, event, data_size, cmd[1], cmd[2]),
               <<"smp_cmd_recv", event, data_size, cmd[1], cmd[2]>>)

\* The transport asks for the authorization of a read or a write.
GattAuthorize ==
    \E uuid \in AttrUuids :
        Commit([State EXCEPT !.ret = gatt_authorize(State, uuid)], <<"gatt_authorize", uuid>>)

\* The DFU timeout work is due and its handler runs.
DfuModeTimeout ==
    /\ dfu_mode_timeout_work.armed
    /\ dfu_mode_timeout_work.remaining = 0
    /\ Commit(dfu_mode_timeout_work_handle(State), <<"dfu_mode_timeout_work_handle">>)

\* The factory reset timer is due: the factory reset module erases the Fast
\* Pair storage and calls the callback main.c passed to the schedule call.
FactoryResetExpire ==
    /\ factory_reset_work.armed
    /\ factory_reset_work.remaining = 0
    /\ Commit(fmdn_factory_reset_executed(
                  [State EXCEPT !.factory_reset_work = Disarmed,
                                !.has_account_key = FALSE]),
              <<"fmdn_factory_reset_executed">>)

Elapse(w) ==
    IF w.armed
    THEN [w EXCEPT !.remaining = IF @ > TickLen THEN @ - TickLen ELSE 0]
    ELSE w

\* TickLen seconds pass; a due timer runs its handler before time goes on.
Tick ==
    /\ dfu_mode_timeout_work.armed \/ factory_reset_work.armed
    /\ dfu_mode_timeout_work.armed => dfu_mode_timeout_work.remaining > 0
    /\ factory_reset_work.armed => factory_reset_work.remaining > 0
    /\ Commit([State EXCEPT !.dfu_mode_timeout_work = Elapse(@),
                            !.factory_reset_work = Elapse(@)],
              <<"tick">>)

Next ==
    \/ AccountKeyWritten
    \/ ProvisioningStateChanged
    \/ ClockSynced
    \/ ReadModeExited
    \/ ModeRequest
    \/ SmpCmdRecv
    \/ GattAuthorize
    \/ DfuModeTimeout
    \/ FactoryResetExpire
    \/ Tick

Spec == Init /\ [][Next]_vars

\* The same initial state, with the record of handlers and results turned off.
InitUnobserved ==
    /\ fmdn_provisioned = FALSE
    /\ fmdn_recovery_mode = FALSE
    /\ fmdn_id_mode = FALSE
    /\ dfu_mode = FALSE
    /\ fp_account_key_present = FALSE
    /\ factory_reset_executed = FALSE
    /\ factory_reset_trigger = FACTORY_RESET_TRIGGER_NONE
    /\ is_first_state_changed_cb = TRUE
    /\ dfu_mode_timeout_work = Disarmed
    /\ factory_reset_work = Disarmed
    /\ fp_adv_mode = APP_FP_ADV_MODE_OFF
    /\ smp_enabled = FALSE
    /\ rpa_rotation_suspended = FALSE
    /\ has_account_key \in BOOLEAN
    /\ state_changed_cb_called = FALSE
    /\ init_work = "returned"
    /\ init_stage = Len(InitStages)
    /\ init_work_sem = 0
    /\ main_pc = "returned"
    /\ init_sem_timeout = K_SECONDS(INIT_SEM_TIMEOUT)
    /\ app_running = TRUE
    /\ ev = Unobserved
    /\ cmds = <<>>
    /\ ret = "void"

\* Timers run: time passes and due work handlers are executed.
FairSpec ==
    /\ InitUnobserved
    /\ [][Next]_vars
    /\ WF_vars(Tick)
    /\ WF_vars(DfuModeTimeout)
    /\ WF_vars(FactoryResetExpire)

----------------------------------------------------------------------------
(* Boot: main() submits init_work and waits for init_work_sem; Spec starts  *)
(* in the state a successful boot ends in.                                  *)

runvars == <<fmdn_provisioned, fmdn_recovery_mode, fmdn_id_mode, dfu_mode,
             fp_account_key_present, factory_reset_executed, factory_reset_trigger,
             is_first_state_changed_cb, dfu_mode_timeout_work, factory_reset_work,
             fp_adv_mode, smp_enabled, rpa_rotation_suspended, has_account_key,
             state_changed_cb_called, ev, cmds, ret>>

BootInit ==
    /\ fmdn_provisioned = FALSE
    /\ fmdn_recovery_mode = FALSE
    /\ fmdn_id_mode = FALSE
    /\ dfu_mode = FALSE
    /\ fp_account_key_present = FALSE
    /\ factory_reset_executed = FALSE
    /\ factory_reset_trigger = FACTORY_RESET_TRIGGER_NONE
    /\ is_first_state_changed_cb = TRUE
    /\ dfu_mode_timeout_work = Disarmed
    /\ factory_reset_work = Disarmed
    /\ fp_adv_mode = APP_FP_ADV_MODE_OFF
    /\ smp_enabled = FALSE
    /\ rpa_rotation_suspended = FALSE
    /\ has_account_key \in BOOLEAN
    /\ state_changed_cb_called = FALSE
    /\ init_work = "idle"
    /\ init_stage = 0
    /\ init_work_sem = 0
    /\ main_pc = "main"
    /\ init_sem_timeout = K_SECONDS(INIT_SEM_TIMEOUT)
    /\ app_running = FALSE
    /\ ev = <<"boot">>
    /\ cmds = <<>>
    /\ ret = "void"

\* main(): k_work_submit(&init_work), then k_sem_take with the timeout.
MainSubmit ==
    /\ main_pc = "main"
    /\ init_work' = "running"
    /\ main_pc' = "k_sem_take"
    /\ init_sem_timeout' = K_SECONDS(INIT_SEM_TIMEOUT)
    /\ UNCHANGED <<init_stage, init_work_sem, app_running, runvars>>

\* init_work_handle: the next call of the chain returns err; the handler
\* returns at the first call that fails.
InitWorkStage ==
    /\ init_work = "running"
    /\ main_pc # "k_panic"
    /\ init_stage < Len(InitStages)
    /\ \E err \in InitErrs :
           IF err # 0
           THEN init_work' = "failed" /\ init_stage' = init_stage
           ELSE init_work' = init_work /\ init_stage' = init_stage + 1
    /\ UNCHANGED <<init_work_sem, main_pc, init_sem_timeout, app_running, runvars>>

\* Mutant: the semaphore is given after a failed call too.
InitWorkGive_after_failure ==
    /\ \/ init_work = "running" /\ init_stage = Len(InitStages)
       \/ init_work = "failed"
    /\ main_pc # "k_panic"
    /\ init_work' = "returned"
    /\ init_work_sem' = 1
    /\ UNCHANGED <<init_stage, main_pc, init_sem_timeout, app_running, runvars>>

\* init_work_handle after the last call: dfu_init() and k_sem_give().
InitWorkGive ==
    /\ init_work = "running"
    /\ main_pc # "k_panic"
    /\ init_stage = Len(InitStages)
    /\ init_work' = "returned"
    /\ init_work_sem' = 1
    /\ UNCHANGED <<init_stage, main_pc, init_sem_timeout, app_running, runvars>>

\* main(): k_sem_take returned 0 before its timeout; the sample has started.
MainStarted ==
    /\ main_pc = "k_sem_take"
    /\ init_sem_timeout > 0
    /\ init_work_sem = 1
    /\ init_work_sem' = 0
    /\ app_running' = TRUE
    /\ main_pc' = "returned"
    /\ init_sem_timeout' = K_SECONDS(INIT_SEM_TIMEOUT)
    /\ UNCHANGED <<init_work, init_stage, runvars>>

\* main(): k_sem_take timed out and main() calls k_panic().
MainPanic ==
    /\ main_pc = "k_sem_take"
    /\ init_sem_timeout = 0
    /\ main_pc' = "k_panic"
    /\ UNCHANGED <<init_work, init_stage, init_work_sem, init_sem_timeout,
                   app_running, runvars>>

\* TickLen seconds pass while main() waits for the semaphore.
SemTick ==
    /\ main_pc = "k_sem_take"
    /\ init_work_sem = 0
    /\ init_sem_timeout > 0
    /\ init_sem_timeout' = IF init_sem_timeout > TickLen
                           THEN init_sem_timeout - TickLen ELSE 0
    /\ UNCHANGED <<init_work, init_stage, init_work_sem, main_pc, app_running, runvars>>

BootNext ==
    \/ MainSubmit
    \/ InitWorkStage
    \/ InitWorkGive
    \/ MainStarted
    \/ MainPanic
    \/ SemTick

\* Time passes and a timed out k_sem_take returns.
BootSpec ==
    /\ BootInit
    /\ [][BootNext]_vars
    /\ WF_vars(SemTick)
    /\ WF_vars(MainPanic)

TypeOK ==
    /\ fmdn_provisioned \in BOOLEAN
    /\ fmdn_recovery_mode \in BOOLEAN
    /\ fmdn_id_mode \in BOOLEAN
    /\ dfu_mode \in BOOLEAN
    /\ fp_account_key_present \in BOOLEAN
    /\ factory_reset_executed \in BOOLEAN
    /\ factory_reset_trigger \in FactoryResetTriggers
    /\ is_first_state_changed_cb \in BOOLEAN
    /\ dfu_mode_timeout_work \in [armed : BOOLEAN, remaining : 0..K_MINUTES(DFU_MODE_TIMEOUT)]
    /\ factory_reset_work \in [armed : BOOLEAN, remaining : 0..K_MINUTES(FMDN_PROVISIONING_TIMEOUT)]
    /\ fp_adv_mode \in AdvModes
    /\ smp_enabled \in BOOLEAN
    /\ rpa_rotation_suspended \in BOOLEAN
    /\ has_account_key \in BOOLEAN
    /\ state_changed_cb_called \in BOOLEAN
    /\ init_work \in {"idle", "running", "failed", "returned"}
    /\ init_stage \in 0..Len(InitStages)
    /\ init_work_sem \in 0..1
    /\ main_pc \in {"main", "k_sem_take", "k_panic", "returned"}
    /\ init_sem_timeout \in 0..K_SECONDS(INIT_SEM_TIMEOUT)
    /\ app_running \in BOOLEAN

----------------------------------------------------------------------------
(* Properties *)

Sent(c) == \E i \in 1..Len(cmds) : cmds[i] = c

SentTo(name) == \E i \in 1..Len(cmds) : cmds[i][1] = name

\* The commands of the last handler that went to the collaborator call `name`.
CmdsTo(name) == SelectSeq(cmds, LAMBDA c : c[1] = name)

\* C1: after a provisioning state change in which the freshly queried Account
\* Key presence differs from the new provisioned value, advertising is Off and
\* the KeyStateMismatch trigger is stored with the reset timer armed for 3 s.
C1_MismatchForcesOffAndReset ==
    (ev[1] = "fmdn_provisioning_state_changed" /\ fp_account_key_present # fmdn_provisioned)
        => /\ fp_adv_mode = APP_FP_ADV_MODE_OFF
           /\ Sent(<<"app_fp_adv_mode_set", APP_FP_ADV_MODE_OFF>>)
           /\ factory_reset_trigger = FACTORY_RESET_TRIGGER_KEY_STATE_MISMATCH
           /\ factory_reset_work = [armed |-> TRUE, remaining |-> 3]

C1_Witness ==
    /\ ev[1] = "fmdn_provisioning_state_changed"
    /\ ev[2] = "true"
    /\ fmdn_provisioned /\ ~fp_account_key_present
    /\ is_first_state_changed_cb = FALSE
    /\ fp_adv_mode = APP_FP_ADV_MODE_OFF
    /\ factory_reset_trigger = FACTORY_RESET_TRIGGER_KEY_STATE_MISMATCH
    /\ factory_reset_work.armed

\* C2: the access gate, for reads and writes alike, is the decision table
\* evaluated in order: SMP characteristic -> allowed iff dfu_mode; GAP device
\* name -> allowed iff not provisioned or in identification mode; any other
\* attribute -> allowed.
C2_DecisionTable(uuid) ==
    CASE uuid = BT_UUID_SMP_CHAR -> dfu_mode
      [] uuid = BT_UUID_GAP_DEVICE_NAME -> ~fmdn_provisioned \/ fmdn_id_mode
      [] OTHER -> TRUE

C2_GateIsDecisionTable ==
    /\ \A uuid \in AttrUuids : gatt_authorize(State, uuid) = C2_DecisionTable(uuid)
    /\ ev[1] = "gatt_authorize" => ret = C2_DecisionTable(ev[2])

\* The device name is refused while the DFU and recovery modes are active, and
\* the SMP characteristic is allowed although the device is provisioned.
C2_Witness ==
    /\ ev[1] = "gatt_authorize"
    /\ ev[2] = BT_UUID_GAP_DEVICE_NAME
    /\ ret = FALSE
    /\ dfu_mode /\ fmdn_recovery_mode /\ fmdn_provisioned /\ ~fmdn_id_mode
    /\ gatt_authorize(State, BT_UUID_SMP_CHAR)

IsStateChanged == ev[1] = "fmdn_provisioning_state_changed"

IsAccountKeyWritten == ev[1] = "fp_account_key_written"

IsDfuEnter ==
    ev[1] = "fmdn_mode_request_handle" /\ ev[2] = APP_UI_REQUEST_DFU_MODE_ENTER

IsSmpCmdRecv == ev[1] = "smp_cmd_recv"

DfuEntryCmds(provisioned) ==
    << <<"app_fp_adv_smp_enable", "true">>,
       <<"app_fp_adv_mode_set", IF provisioned THEN APP_FP_ADV_MODE_NOT_DISCOVERABLE
                                               ELSE APP_FP_ADV_MODE_DISCOVERABLE>>,
       <<"app_ui_state_change_indicate", APP_UI_STATE_DFU_MODE, "true">> >>

\* The commands of the last handler without its log lines.
Commands == SelectSeq(cmds, LAMBDA c : c[1] # "LOG_INF" /\ c[1] # "LOG_ERR")

\* C3 as stated: a DFU mode request that arrives while DFU mode is active (no
\* expiry since the last request) sends no expose command, no advertising
\* set-mode command and no DFU UI indication, and resets the DFU timer to 60 s.
C3_NoDuplicateEntryEffect ==
    [][(dfu_mode /\ IsDfuEnter')
         => /\ ~SentTo("app_fp_adv_smp_enable")'
            /\ ~SentTo("app_fp_adv_mode_set")'
            /\ ~Sent(<<"app_ui_state_change_indicate", APP_UI_STATE_DFU_MODE, "true">>)'
            /\ dfu_mode_timeout_work' = [armed |-> TRUE, remaining |-> 60]]_vars

\* C3 amended: a DFU mode request that arrives while DFU mode is active sends
\* the entry commands again (expose, advertising set-mode, DFU UI indication,
\* with the values of an entry), which leaves dfu_mode and the exposure as
\* they were, and resets the DFU timer to its full 60 s.
C3_SecondEntryRepeatsCommandsAndRefreshes ==
    [][(dfu_mode /\ IsDfuEnter')
         => /\ Commands' = DfuEntryCmds(fmdn_provisioned)
            /\ dfu_mode' /\ smp_enabled /\ smp_enabled'
            /\ dfu_mode_timeout_work' = [armed |-> TRUE, remaining |-> 60]]_vars

C3_Witness ==
    /\ IsDfuEnter
    /\ Sent(<<"LOG_INF", "DFU: refreshing the DFU mode timeout">>)
    /\ Sent(<<"app_fp_adv_smp_enable", "true">>)
    /\ dfu_mode
    /\ dfu_mode_timeout_work = [armed |-> TRUE, remaining |-> 60]

\* C4: the stored trigger is not None exactly when the one reset timer is
\* armed; a cancel clears both and changes nothing when nothing is scheduled;
\* a cancel followed by a schedule leaves the timer armed once, with the new
\* trigger and the new delay.
C4_TriggerIffTimerArmed ==
    /\ (factory_reset_trigger # FACTORY_RESET_TRIGGER_NONE) <=> factory_reset_work.armed
    /\ LET c == fmdn_factory_reset_cancel(State)
       IN  /\ c.factory_reset_trigger = FACTORY_RESET_TRIGGER_NONE
           /\ ~c.factory_reset_work.armed
           /\ (factory_reset_trigger = FACTORY_RESET_TRIGGER_NONE) => (c = State)
           /\ \A trigger \in FactoryResetTriggers \ {FACTORY_RESET_TRIGGER_NONE},
                 delay \in {3, 300} :
                  LET r == fmdn_factory_reset_schedule(c, trigger, delay)
                  IN  /\ r.factory_reset_trigger = trigger
                      /\ r.factory_reset_work = [armed |-> TRUE, remaining |-> delay]

\* A provisioning timeout was cancelled by the state change to provisioned.
C4_Witness ==
    /\ IsStateChanged
    /\ Sent(<<"app_fp_adv_rpa_rotation_suspend", "false">>)
    /\ factory_reset_trigger = FACTORY_RESET_TRIGGER_NONE
    /\ ~factory_reset_work.armed

\* C5 as stated: when the state change finds the Account Key presence equal to
\* the provisioned value and the executed latch clear, the mode it sets is
\* Discoverable if unprovisioned, NotDiscoverable if provisioned and this is
\* the first state change callback since boot, Off if provisioned and not the
\* first.
C5_ModeByFirstCallbackSinceBoot ==
    [][(IsStateChanged' /\ fp_account_key_present' = fmdn_provisioned'
                        /\ ~factory_reset_executed)
         => LET mode == IF ~fmdn_provisioned' THEN APP_FP_ADV_MODE_DISCOVERABLE
                        ELSE IF ~state_changed_cb_called
                             THEN APP_FP_ADV_MODE_NOT_DISCOVERABLE
                             ELSE APP_FP_ADV_MODE_OFF
            IN  /\ fp_adv_mode' = mode
                /\ CmdsTo("app_fp_adv_mode_set")' = << <<"app_fp_adv_mode_set", mode>> >>]_vars

\* C6: an Account Key write sets the mode NotDiscoverable and reads the key
\* presence from the library; when no key was present before, it schedules
\* the ProvisioningTimeout trigger for 5 minutes and suspends the address
\* rotation; when a key was present, trigger, timer and rotation are untouched.
C6_AccountKeyWritten ==
    [][IsAccountKeyWritten'
         => /\ fp_adv_mode' = APP_FP_ADV_MODE_NOT_DISCOVERABLE
            /\ Sent(<<"app_fp_adv_mode_set", APP_FP_ADV_MODE_NOT_DISCOVERABLE>>)'
            /\ fp_account_key_present' = has_account_key'
            /\ IF ~fp_account_key_present
               THEN /\ factory_reset_trigger' = FACTORY_RESET_TRIGGER_PROVISIONING_TIMEOUT
                    /\ factory_reset_work' = [armed |-> TRUE, remaining |-> 5 * 60]
                    /\ rpa_rotation_suspended'
                    /\ Sent(<<"app_fp_adv_rpa_rotation_suspend", "true">>)'
               ELSE /\ UNCHANGED <<factory_reset_trigger, factory_reset_work,
                                   rpa_rotation_suspended>>
                    /\ ~SentTo("app_fp_adv_rpa_rotation_suspend")']_vars

C6_Witness ==
    /\ IsAccountKeyWritten
    /\ fp_adv_mode = APP_FP_ADV_MODE_NOT_DISCOVERABLE
    /\ fp_account_key_present
    /\ ~fmdn_provisioned
    /\ factory_reset_trigger = FACTORY_RESET_TRIGGER_PROVISIONING_TIMEOUT
    /\ factory_reset_work = [armed |-> TRUE, remaining |-> 300]
    /\ rpa_rotation_suspended

IsFactoryResetExecuted == ev[1] = "fmdn_factory_reset_executed"

ModeState(s) ==
    <<s.fmdn_provisioned, s.fmdn_recovery_mode, s.fmdn_id_mode, s.dfu_mode,
      s.fp_account_key_present, s.factory_reset_executed, s.factory_reset_trigger,
      s.is_first_state_changed_cb, s.dfu_mode_timeout_work, s.factory_reset_work,
      s.fp_adv_mode, s.smp_enabled, s.rpa_rotation_suspended, s.has_account_key>>

\* The step is a DFU mode request.
DfuEnterStep ==
    \E err \in ReadModeEnterErrs :
        ModeState(State)' =
            ModeState(fmdn_mode_request_handle(State, APP_UI_REQUEST_DFU_MODE_ENTER, err))

ProtectedCmds ==
    {cmd \in MgmtCmds : \/ cmd[1] = MGMT_GROUP_ID_IMAGE
                        \/ cmd[1] = MGMT_GROUP_ID_OS /\ cmd[2] = OS_MGMT_ID_RESET}

\* The step is the reception of a protected command.
ProtectedTrafficStep ==
    \E cmd \in ProtectedCmds :
        ModeState(State)' =
            ModeState(smp_cmd_recv(State, MGMT_EVT_OP_CMD_RECV, SizeofCmdRecv, cmd[1], cmd[2]))

\* C8: DFU mode always has its timer running, and the timer is moved back to
\* 60 s only by a DFU mode request or a protected command; so an active DFU
\* mode whose window is not refreshed eventually expires.  The expiry step
\* clears dfu_mode, hides the SMP characteristic, forces the mode Off and
\* indicates DFU mode false; while dfu_mode is false the SMP characteristic is
\* not authorized, and only a DFU mode request sets dfu_mode again.
C8_DfuModeExpires ==
    /\ [](dfu_mode => dfu_mode_timeout_work.armed)
    /\ (dfu_mode /\ dfu_mode_timeout_work.remaining = 60)
           ~> (~dfu_mode \/ dfu_mode_timeout_work.remaining < 60)
    /\ (dfu_mode /\ dfu_mode_timeout_work.remaining < 60)
           ~> (~dfu_mode \/ dfu_mode_timeout_work.remaining = 60)
    /\ [][(/\ dfu_mode_timeout_work'.armed
           /\ ~dfu_mode_timeout_work.armed
                  \/ dfu_mode_timeout_work'.remaining > dfu_mode_timeout_work.remaining)
            => (DfuEnterStep \/ ProtectedTrafficStep)]_vars
    /\ [][(dfu_mode /\ ~dfu_mode')
            => /\ dfu_mode_timeout_work = [armed |-> TRUE, remaining |-> 0]
               /\ ~dfu_mode_timeout_work'.armed
               /\ ~smp_enabled'
               /\ fp_adv_mode' = APP_FP_ADV_MODE_OFF]_vars
    /\ []((dfu_mode /\ dfu_mode_timeout_work.remaining = 0)
            => \E i \in DOMAIN dfu_mode_timeout_work_handle(State).cmds :
                   dfu_mode_timeout_work_handle(State).cmds[i] =
                       <<"app_ui_state_change_indicate", APP_UI_STATE_DFU_MODE, "false">>)
    /\ [](~dfu_mode => ~gatt_authorize(State, BT_UUID_SMP_CHAR))
    /\ [][(~dfu_mode /\ dfu_mode') => DfuEnterStep]_vars

\* DFU mode was entered after the Account Key write and has expired: nothing
\* else turns the advertising off before the first provisioning state change.
C8_Witness ==
    /\ ~state_changed_cb_called
    /\ fp_account_key_present
    /\ fp_adv_mode = APP_FP_ADV_MODE_OFF
    /\ ~dfu_mode
    /\ ~smp_enabled
    /\ ~dfu_mode_timeout_work.armed
    /\ ~gatt_authorize(State, BT_UUID_SMP_CHAR)

\* C9: in every state a DFU mode request sets dfu_mode, arms the DFU timer
\* for 60 s, exposes the SMP characteristic and sets the mode NotDiscoverable
\* if provisioned and Discoverable otherwise.
C9_DfuEnterAccepted ==
    LET mode == IF fmdn_provisioned THEN APP_FP_ADV_MODE_NOT_DISCOVERABLE
                                    ELSE APP_FP_ADV_MODE_DISCOVERABLE
    IN  /\ \A err \in ReadModeEnterErrs :
               LET r == fmdn_mode_request_handle(State, APP_UI_REQUEST_DFU_MODE_ENTER, err)
               IN  /\ r.dfu_mode
                   /\ r.dfu_mode_timeout_work = [armed |-> TRUE, remaining |-> 60]
                   /\ r.smp_enabled
                   /\ r.fp_adv_mode = mode
                   /\ r.fmdn_provisioned = fmdn_provisioned
        /\ IsDfuEnter
               => /\ dfu_mode
                  /\ dfu_mode_timeout_work = [armed |-> TRUE, remaining |-> 60]
                  /\ smp_enabled
                  /\ Sent(<<"app_fp_adv_smp_enable", "true">>)
                  /\ fp_adv_mode = mode
                  /\ Sent(<<"app_fp_adv_mode_set", mode>>)

C9_Witness ==
    /\ IsDfuEnter
    /\ Sent(<<"LOG_INF", "DFU: entering the DFU mode">>)
    /\ fmdn_provisioned
    /\ dfu_mode
    /\ smp_enabled
    /\ fp_adv_mode = APP_FP_ADV_MODE_NOT_DISCOVERABLE
    /\ dfu_mode_timeout_work = [armed |-> TRUE, remaining |-> 60]

\* C10: the reception of an image management command or of the OS reset
\* command arms the DFU timer for 60 s; every other reception (another
\* command, a spurious event, a wrong payload size) leaves the timer as it is;
\* no reception changes anything else or sends a command.
C10_ProtectedTrafficOnlyRearms ==
    [][IsSmpCmdRecv'
         => /\ UNCHANGED <<fmdn_provisioned, fmdn_recovery_mode, fmdn_id_mode, dfu_mode,
                           fp_account_key_present, factory_reset_executed,
                           factory_reset_trigger, is_first_state_changed_cb,
                           factory_reset_work, fp_adv_mode, smp_enabled,
                           rpa_rotation_suspended, has_account_key>>
            /\ Commands' = <<>>
            /\ IF /\ ev'[2] = MGMT_EVT_OP_CMD_RECV
                  /\ ev'[3] = SizeofCmdRecv
                  /\ <<ev'[4], ev'[5]>> \in ProtectedCmds
               THEN /\ dfu_mode_timeout_work' = [armed |-> TRUE, remaining |-> 60]
                    /\ ret' = MGMT_CB_OK
               ELSE dfu_mode_timeout_work' = dfu_mode_timeout_work]_vars

\* A protected command armed the timer outside DFU mode.
C10_Witness ==
    /\ IsSmpCmdRecv
    /\ ev[4] = MGMT_GROUP_ID_IMAGE
    /\ ret = MGMT_CB_OK
    /\ dfu_mode_timeout_work = [armed |-> TRUE, remaining |-> 60]
    /\ ~dfu_mode
    /\ ~smp_enabled

\* The calls to the collaborator function `name` recorded in a state record.
CallsIn(s, name) == SelectSeq(s.cmds, LAMBDA c : c[1] = name)

IsRecoveryEnter ==
    ev[1] = "fmdn_mode_request_handle" /\ ev[2] = APP_UI_REQUEST_RECOVERY_MODE_ENTER

\* C11: a recovery mode request in the unprovisioned state changes nothing,
\* indicates nothing and does not ask the library; a request the library
\* rejects changes nothing and indicates nothing (no timer is touched, so no
\* retry is scheduled); a request the library accepts in the provisioned
\* state sets fmdn_recovery_mode, also when it was already set.
C11_RecoveryEnter ==
    /\ [](\A err \in ReadModeEnterErrs :
            LET r == fmdn_mode_request_handle(State, APP_UI_REQUEST_RECOVERY_MODE_ENTER, err)
            IN  IF ~fmdn_provisioned
                THEN /\ ModeState(r) = ModeState(State)
                     /\ CallsIn(r, "app_ui_state_change_indicate") = <<>>
                     /\ CallsIn(r, "bt_fast_pair_fmdn_read_mode_enter") = <<>>
                ELSE IF err # 0
                THEN /\ ModeState(r) = ModeState(State)
                     /\ CallsIn(r, "app_ui_state_change_indicate") = <<>>
                ELSE /\ r.fmdn_recovery_mode
                     /\ CallsIn(r, "app_ui_state_change_indicate") =
                            << <<"app_ui_state_change_indicate",
                                 APP_UI_STATE_RECOVERY_MODE, "true">> >>)
    /\ [][IsRecoveryEnter'
            => IF ~fmdn_provisioned \/ Sent(<<"LOG_ERR", "FMDN: failed to enter the recovery mode">>)'
               THEN /\ ModeState(State)' = ModeState(State)
                    /\ ~SentTo("app_ui_state_change_indicate")'
                    /\ fmdn_provisioned <=> SentTo("bt_fast_pair_fmdn_read_mode_enter")'
               ELSE /\ fmdn_recovery_mode'
                    /\ Sent(<<"app_ui_state_change_indicate",
                              APP_UI_STATE_RECOVERY_MODE, "true">>)']_vars

\* The library rejected the request and the flag stayed clear.
C11_Witness ==
    /\ IsRecoveryEnter
    /\ Sent(<<"LOG_ERR", "FMDN: failed to enter the recovery mode">>)
    /\ fmdn_provisioned
    /\ ~fmdn_recovery_mode

IsReadModeExited(mode) == ev[1] = "fmdn_read_mode_exited" /\ ev[2] = mode

\* C12: fmdn_recovery_mode goes from true to false only in the handling of
\* the exit of the recovery read mode, fmdn_id_mode only in the handling of
\* the exit of the identification read mode, and the exit of one mode leaves
\* the flag of the other mode as it was.
C12_FlagsClearedOnlyByOwnExit ==
    /\ [][(fmdn_recovery_mode /\ ~fmdn_recovery_mode')
            => IsReadModeExited(BT_FAST_PAIR_FMDN_READ_MODE_FMDN_RECOVERY)']_vars
    /\ [][(fmdn_id_mode /\ ~fmdn_id_mode')
            => IsReadModeExited(BT_FAST_PAIR_FMDN_READ_MODE_DULT_ID)']_vars
    /\ [][IsReadModeExited(BT_FAST_PAIR_FMDN_READ_MODE_FMDN_RECOVERY)'
            => (~fmdn_recovery_mode' /\ fmdn_id_mode' = fmdn_id_mode)]_vars
    /\ [][IsReadModeExited(BT_FAST_PAIR_FMDN_READ_MODE_DULT_ID)'
            => (~fmdn_id_mode' /\ fmdn_recovery_mode' = fmdn_recovery_mode)]_vars

\* The recovery mode exited while the identification mode stays active.
C12_Witness ==
    /\ IsReadModeExited(BT_FAST_PAIR_FMDN_READ_MODE_FMDN_RECOVERY)
    /\ Sent(<<"app_ui_state_change_indicate", APP_UI_STATE_RECOVERY_MODE, "false">>)
    /\ ~fmdn_recovery_mode
    /\ fmdn_id_mode

IsIdEnter ==
    ev[1] = "fmdn_mode_request_handle" /\ ev[2] = APP_UI_REQUEST_ID_MODE_ENTER

\* C13: an identification mode request that the library accepts in the
\* provisioned state sets fmdn_id_mode; in the unprovisioned state the request
\* changes nothing and does not ask the library; so after every request the
\* library did not reject, the characteristics with identifying information
\* are authorized.
C13_IdEnter ==
    /\ [](LET r == fmdn_mode_request_handle(State, APP_UI_REQUEST_ID_MODE_ENTER, 0)
          IN  /\ fmdn_provisioned => r.fmdn_id_mode
              /\ ~fmdn_provisioned
                     => /\ ModeState(r) = ModeState(State)
                        /\ CallsIn(r, "bt_fast_pair_fmdn_read_mode_enter") = <<>>
              /\ identifying_info_allow(r)
              /\ gatt_authorize(r, BT_UUID_GAP_DEVICE_NAME))
    /\ []((IsIdEnter /\ ~Sent(<<"LOG_ERR", "FMDN: failed to enter the identification mode">>))
            => /\ fmdn_provisioned => fmdn_id_mode
               /\ ~fmdn_provisioned => ~SentTo("bt_fast_pair_fmdn_read_mode_enter")
               /\ identifying_info_allow(State)
               /\ gatt_authorize(State, BT_UUID_GAP_DEVICE_NAME))
    /\ [][(IsIdEnter' /\ ~fmdn_provisioned) => ModeState(State)' = ModeState(State)]_vars

\* An accepted request opened the access in the provisioned state.
C13_Witness ==
    /\ IsIdEnter
    /\ Sent(<<"LOG_INF", "FMDN: entering the identification mode">>)
    /\ Sent(<<"app_ui_state_change_indicate", APP_UI_STATE_ID_MODE, "true">>)
    /\ fmdn_provisioned
    /\ fmdn_id_mode
    /\ gatt_authorize(State, BT_UUID_GAP_DEVICE_NAME)

IsClockSynced == ev[1] = "fmdn_clock_synced"

\* C14: the clock synchronization sets the mode Off exactly when the device
\* is provisioned and sends no advertising command otherwise; it changes no
\* mode flag, no timer and no factory reset trigger.
C14_ClockSynced ==
    /\ [](LET r == fmdn_clock_synced(State)
          IN  /\ IF fmdn_provisioned
                 THEN /\ r.fp_adv_mode = APP_FP_ADV_MODE_OFF
                      /\ CallsIn(r, "app_fp_adv_mode_set") =
                             << <<"app_fp_adv_mode_set", APP_FP_ADV_MODE_OFF>> >>
                 ELSE /\ r.fp_adv_mode = fp_adv_mode
                      /\ CallsIn(r, "app_fp_adv_mode_set") = <<>>
              /\ ModeState([r EXCEPT !.fp_adv_mode = fp_adv_mode]) = ModeState(State))
    /\ [][IsClockSynced'
            => /\ IF fmdn_provisioned
                  THEN /\ fp_adv_mode' = APP_FP_ADV_MODE_OFF
                       /\ Commands' = << <<"app_fp_adv_mode_set", APP_FP_ADV_MODE_OFF>> >>
                  ELSE /\ fp_adv_mode' = fp_adv_mode
                       /\ Commands' = <<>>
               /\ UNCHANGED <<fmdn_provisioned, fmdn_recovery_mode, fmdn_id_mode, dfu_mode,
                              fp_account_key_present, factory_reset_executed,
                              factory_reset_trigger, is_first_state_changed_cb,
                              dfu_mode_timeout_work, factory_reset_work, smp_enabled,
                              rpa_rotation_suspended>>]_vars

\* The clock was synchronized in the provisioned state while DFU mode was active.
C14_Witness ==
    /\ IsClockSynced
    /\ fmdn_provisioned
    /\ Sent(<<"app_fp_adv_mode_set", APP_FP_ADV_MODE_OFF>>)
    /\ fp_adv_mode = APP_FP_ADV_MODE_OFF
    /\ dfu_mode
    /\ dfu_mode_timeout_work.armed

\* C15: the initialization calls run in order; after a call that failed no
\* later call runs and the semaphore is never given, so the k_sem_take of
\* main() times out and main() panics, after which nothing runs; the
\* application running indication is sent only after every call returned 0.
C15_InitChain ==
    /\ [][init_stage' \in {init_stage, init_stage + 1}]_vars
    /\ [][init_work = "failed"
            => /\ init_work' = "failed"
               /\ init_stage' = init_stage
               /\ init_work_sem' = 0
               /\ ~app_running']_vars
    /\ [](init_work = "failed" => (init_work_sem = 0 /\ ~app_running))
    /\ (init_work = "failed") ~> (main_pc = "k_panic")
    /\ [][main_pc = "k_panic" => UNCHANGED vars]_vars
    /\ [](init_work_sem = 1 => init_stage = Len(InitStages))
    /\ [](app_running => (init_work = "returned" /\ init_stage = Len(InitStages)))
    /\ [](main_pc = "returned"
            => /\ app_running
               /\ init_work_sem = 0
               /\ init_sem_timeout = K_SECONDS(INIT_SEM_TIMEOUT))

\* bt_enable failed and main() panicked after the timeout.
C15_Witness ==
    /\ init_work = "failed"
    /\ InitStages[init_stage + 1] = "bt_enable"
    /\ init_work_sem = 0
    /\ init_sem_timeout = 0
    /\ main_pc = "k_panic"
    /\ ~app_running

PressButtonPrompt ==
    <<"LOG_INF", "Please press a button to put the device in the Fast Pair discoverable advertising mode after a reset to factory settings">>

\* C16: a provisioning state change that finds the Account Key presence equal
\* to the provisioned value while factory_reset_executed is set clears the
\* latch, prints the prompt and sends no advertising set-mode command, so the
\* mode is what it was; the latch is set only by the expiry of a scheduled
\* factory reset, which also sets the stored trigger to None.
C16_ExecutedLatch ==
    /\ [][(/\ IsStateChanged'
           /\ fp_account_key_present' = fmdn_provisioned'
           /\ factory_reset_executed)
            => /\ ~factory_reset_executed'
               /\ Sent(PressButtonPrompt)'
               /\ ~SentTo("app_fp_adv_mode_set")'
               /\ fp_adv_mode' = fp_adv_mode]_vars
    /\ [][(~factory_reset_executed /\ factory_reset_executed')
            => /\ IsFactoryResetExecuted'
               /\ factory_reset_work = [armed |-> TRUE, remaining |-> 0]
               /\ factory_reset_trigger # FACTORY_RESET_TRIGGER_NONE
               /\ factory_reset_trigger' = FACTORY_RESET_TRIGGER_NONE
               /\ ~factory_reset_work'.armed]_vars
    /\ [][IsFactoryResetExecuted'
            => (factory_reset_executed'
                /\ factory_reset_trigger' = FACTORY_RESET_TRIGGER_NONE)]_vars

\* After a factory reset the state change to unprovisioned left the mode as
\* the Account Key write before the reset had set it.
C16_Witness ==
    /\ IsStateChanged
    /\ Sent(PressButtonPrompt)
    /\ ~fmdn_provisioned
    /\ ~fp_account_key_present
    /\ ~factory_reset_executed
    /\ fp_adv_mode = APP_FP_ADV_MODE_NOT_DISCOVERABLE

\* C17: a provisioning state change that finds the Account Key presence
\* different from the provisioned value leaves is_first_state_changed_cb,
\* factory_reset_executed, fmdn_recovery_mode, fmdn_id_mode and dfu_mode as
\* they were; it changes only fmdn_provisioned, fp_account_key_present, the
\* advertising mode (Off) and the reset trigger with its timer.
C17_MismatchPathFrame ==
    [][(IsStateChanged' /\ fp_account_key_present' # fmdn_provisioned')
         => /\ UNCHANGED <<is_first_state_changed_cb, factory_reset_executed,
                           fmdn_recovery_mode, fmdn_id_mode, dfu_mode>>
            /\ UNCHANGED <<dfu_mode_timeout_work, smp_enabled, rpa_rotation_suspended,
                           has_account_key>>
            /\ fmdn_provisioned' = (ev'[2] = "true")
            /\ fp_account_key_present' = has_account_key
            /\ fp_adv_mode' = APP_FP_ADV_MODE_OFF
            /\ factory_reset_trigger' = FACTORY_RESET_TRIGGER_KEY_STATE_MISMATCH
            /\ factory_reset_work' = [armed |-> TRUE, remaining |-> 3]]_vars

\* The first callback since boot took the mismatch path in DFU mode: the
\* first-callback latch is still set and DFU mode is still active.
C17_Witness ==
    /\ IsStateChanged
    /\ ev[2] = "false"
    /\ fp_account_key_present
    /\ ~fmdn_provisioned
    /\ factory_reset_trigger = FACTORY_RESET_TRIGGER_KEY_STATE_MISMATCH
    /\ fp_adv_mode = APP_FP_ADV_MODE_OFF
    /\ is_first_state_changed_cb
    /\ dfu_mode
    /\ smp_enabled

\* C18 as stated: only the first provisioning state change callback since
\* boot can select NotDiscoverable; every later callback with provisioned =
\* true, a stored Account Key and a clear executed latch selects Off, whatever
\* path the earlier callbacks took.
C18_FirstCallbackLatchOneShot ==
    /\ [][(IsStateChanged' /\ Sent(<<"app_fp_adv_mode_set",
                                     APP_FP_ADV_MODE_NOT_DISCOVERABLE>>)')
            => ~state_changed_cb_called]_vars
    /\ [][(/\ IsStateChanged'
           /\ state_changed_cb_called
           /\ fmdn_provisioned'
           /\ fp_account_key_present'
           /\ ~factory_reset_executed)
            => /\ Sent(<<"app_fp_adv_mode_set", APP_FP_ADV_MODE_OFF>>)'
               /\ fp_adv_mode' = APP_FP_ADV_MODE_OFF]_vars

\* The step calls fmdn_factory_reset_schedule without a call of
\* fmdn_factory_reset_cancel before it in the same handler.
ScheduleWithoutCancel ==
    \/ IsAccountKeyWritten' /\ ~fp_account_key_present
    \/ /\ IsStateChanged'
       /\ fp_account_key_present' # fmdn_provisioned'
       /\ ~(fmdn_provisioned' /\
            factory_reset_trigger = FACTORY_RESET_TRIGGER_PROVISIONING_TIMEOUT)

\* C19 as stated: every call of the schedule operation, from the Account Key
\* write or from the mismatch path of the provisioning state change, happens
\* while the stored trigger is None, so a live trigger is never overwritten
\* without a cancel before it.
C19_ScheduleOnlyWhenNoTrigger ==
    [][ScheduleWithoutCancel
         => factory_reset_trigger = FACTORY_RESET_TRIGGER_NONE]_vars

IsDfuModeTimeout == ev[1] = "dfu_mode_timeout_work_handle"

\* C20 as stated: the DFU timer is armed only while dfu_mode is true, so the
\* expiry handler never runs in a state where DFU mode was not active and
\* never changes the advertising mode there.
C20_DfuTimerArmedOnlyInDfuMode ==
    /\ [](dfu_mode_timeout_work.armed => dfu_mode)
    /\ [][IsDfuModeTimeout' => dfu_mode]_vars
    /\ [][(IsDfuModeTimeout' /\ ~dfu_mode) => fp_adv_mode' = fp_adv_mode]_vars

\* C21 as stated: whenever the address rotation is suspended, a
\* ProvisioningTimeout trigger is live; the suspension starts only in the
\* step that schedules that trigger and is lifted in every step in which the
\* trigger is cancelled, replaced by another trigger or expires.
C21_SuspensionOnlyInProvisioningWindow ==
    /\ [](rpa_rotation_suspended
            => /\ factory_reset_trigger = FACTORY_RESET_TRIGGER_PROVISIONING_TIMEOUT
               /\ factory_reset_work.armed)
    /\ [][(~rpa_rotation_suspended /\ rpa_rotation_suspended')
            => factory_reset_trigger' = FACTORY_RESET_TRIGGER_PROVISIONING_TIMEOUT]_vars
    /\ [][(/\ factory_reset_trigger = FACTORY_RESET_TRIGGER_PROVISIONING_TIMEOUT
           /\ factory_reset_trigger' # FACTORY_RESET_TRIGGER_PROVISIONING_TIMEOUT)
            => ~rpa_rotation_suspended']_vars

\* C22 as stated: once the KeyStateMismatch trigger is scheduled, the factory
\* reset is eventually executed: the only step that ends the trigger is the
\* expiry of the reset timer, which erases the Account Key and sets the
\* executed latch; no other step cancels the trigger or replaces it.
C22_MismatchEventuallyResets ==
    /\ [][(/\ factory_reset_trigger = FACTORY_RESET_TRIGGER_KEY_STATE_MISMATCH
           /\ factory_reset_trigger' # FACTORY_RESET_TRIGGER_KEY_STATE_MISMATCH)
            => /\ factory_reset_work = [armed |-> TRUE, remaining |-> 0]
               /\ factory_reset_trigger' = FACTORY_RESET_TRIGGER_NONE
               /\ ~factory_reset_work'.armed
               /\ factory_reset_executed'
               /\ ~has_account_key']_vars
    /\ (factory_reset_trigger = FACTORY_RESET_TRIGGER_KEY_STATE_MISMATCH)
           ~> (/\ factory_reset_trigger = FACTORY_RESET_TRIGGER_NONE
               /\ factory_reset_executed)

====
